---- MODULE Spec2Model ----
(***************************************************************************)
(* A model of agents/snowflake_agent.py: the warehouse fetch, the LLM spec *)
(* advisor and its response parser, the chart renderer, the insight        *)
(* narrator, the LLM client dispatch and the process entry point.          *)
(*                                                                         *)
(* Python strings that the code inspects character by character (model     *)
(* names, LLM response text, column names, spec keys and values) are       *)
(* sequences of one-character strings.                                     *)
(***************************************************************************)
EXTENDS Integers, Sequences, FiniteSets, TLC

(***************************************************************************)
(* Bounds                                                                  *)
(***************************************************************************)
\* longest LLM response text handed to the parser on its own
MaxTextLen == 5
\* most name fragments concatenated into one model name
MaxFragments == 2
\* most rows of a table
MaxRows == 2
\* largest metric value in a table cell
MaxVal == 2
\* most rows of the warehouse table
MaxWarehouseRows == 2

(***************************************************************************)
(* Python str primitives                                                   *)
(***************************************************************************)
SetMin(S) == CHOOSE m \in S : \A n \in S : m <= n
SetMax(S) == CHOOSE m \in S : \A n \in S : m >= n

LowerLetters ==
    <<"a","b","c","d","e","f","g","h","i","j","k","l","m",
      "n","o","p","q","r","s","t","u","v","w","x","y","z">>
UpperLetters ==
    <<"A","B","C","D","E","F","G","H","I","J","K","L","M",
      "N","O","P","Q","R","S","T","U","V","W","X","Y","Z">>

\* str.lower() on one character
LowerChar(c) ==
    IF \E i \in 1..26 : UpperLetters[i] = c
    THEN LowerLetters[CHOOSE i \in 1..26 : UpperLetters[i] = c]
    ELSE c

\* str.upper() on one character
UpperChar(c) ==
    IF \E i \in 1..26 : LowerLetters[i] = c
    THEN UpperLetters[CHOOSE i \in 1..26 : LowerLetters[i] = c]
    ELSE c

RECURSIVE StrLower(_)
StrLower(s) ==
    IF s = <<>> THEN <<>> ELSE <<LowerChar(Head(s))>> \o StrLower(Tail(s))

RECURSIVE StrUpper(_)
StrUpper(s) ==
    IF s = <<>> THEN <<>> ELSE <<UpperChar(Head(s))>> \o StrUpper(Tail(s))

IsSpace(c) == c \in {" ", "\t", "\r", "\n"}

\* str.strip(): drop leading and trailing whitespace
StrStrip(s) ==
    LET keep == {i \in 1..Len(s) : ~IsSpace(s[i])}
    IN  IF keep = {} THEN <<>> ELSE SubSeq(s, SetMin(keep), SetMax(keep))

\* the Python test  sub in s
StrContains(s, sub) ==
    \E i \in 0..(Len(s) - Len(sub)) : SubSeq(s, i + 1, i + Len(sub)) = sub

\* positions of character c in s
Positions(s, c) == {i \in 1..Len(s) : s[i] = c}

\* str.split(c): the pieces between occurrences of c, at least one piece
RECURSIVE StrSplit(_, _)
StrSplit(s, c) ==
    IF Positions(s, c) = {} THEN <<s>>
    ELSE LET k == SetMin(Positions(s, c))
         IN  <<SubSeq(s, 1, k - 1)>> \o StrSplit(SubSeq(s, k + 1, Len(s)), c)

(***************************************************************************)
(* get_graph_specs_from_llm: the response parser                           *)
(***************************************************************************)
\* the mapping m with m[key] = value set (dict item assignment)
DictSet(m, key, value) ==
    [k \in (DOMAIN m) \cup {key} |-> IF k = key THEN value ELSE m[k]]

\* dict.get(key, default)
DictGet(m, key, default) == IF key \in DOMAIN m THEN m[key] ELSE default

EmptyDict == [k \in {} |-> <<>>]

\* line.split(":", 1) cutting at the LAST colon instead of the first
SplitLastColon(line) ==
    LET k == SetMax(Positions(line, ":"))
    IN  <<SubSeq(line, 1, k - 1), SubSeq(line, k + 1, Len(line))>>

\* line.split(":", 1) of a line that holds a colon: <<key, value>>
SplitFirstColon(line) ==
    LET k == SetMin(Positions(line, ":"))
    IN  <<SubSeq(line, 1, k - 1), SubSeq(line, k + 1, Len(line))>>

\* the loop body over the lines, in order, starting from the mapping specs
RECURSIVE ParseLines(_, _)
ParseLines(lines, specs) ==
    IF lines = <<>> THEN specs
    ELSE LET line == Head(lines)
         IN  IF Positions(line, ":") # {}
             THEN LET kv == SplitFirstColon(line)
                  IN  ParseLines(Tail(lines),
                                 DictSet(specs, StrStrip(kv[1]), StrStrip(kv[2])))
             ELSE ParseLines(Tail(lines), specs)

\* specs = {}; for line in response_text.split("\n"): ...
parse_response(response_text) ==
    ParseLines(StrSplit(response_text, "\n"), EmptyDict)

(***************************************************************************)
(* initialize_llm: provider dispatch by substring of the model name        *)
(***************************************************************************)
s_claude   == <<"c","l","a","u","d","e">>
s_gemini   == <<"g","e","m","i","n","i">>
s_deepseek == <<"d","e","e","p","s","e","e","k">>
s_grok     == <<"g","r","o","k">>
\* the model of the fallback branch and of the default argument
DefaultModel ==
    <<"c","l","a","u","d","e","-","3","-","h","a","i","k","u",
      "-","2","0","2","4","0","3","0","7">>

\* the dispatch with the gemini test ahead of the claude test
initialize_llm_gemini_first(model_name) ==
    IF StrContains(model_name, s_gemini)
    THEN [client |-> "ChatGoogleGenerativeAI", model |-> model_name]
    ELSE IF StrContains(model_name, s_claude)
    THEN [client |-> "ChatAnthropic", model |-> model_name]
    ELSE IF StrContains(model_name, s_deepseek)
    THEN [client |-> "ChatOpenAI", model |-> model_name]
    ELSE IF StrContains(model_name, s_grok)
    THEN [client |-> "ChatGroq", model |-> model_name]
    ELSE [client |-> "ChatAnthropic", model |-> DefaultModel]

initialize_llm(model_name) ==
    IF StrContains(model_name, s_claude)
    THEN [client |-> "ChatAnthropic", model |-> model_name]
    ELSE IF StrContains(model_name, s_gemini)
    THEN [client |-> "ChatGoogleGenerativeAI", model |-> model_name]
    ELSE IF StrContains(model_name, s_deepseek)
    THEN [client |-> "ChatOpenAI", model |-> model_name]
    ELSE IF StrContains(model_name, s_grok)
    THEN [client |-> "ChatGroq", model |-> model_name]
    ELSE [client |-> "ChatAnthropic", model |-> DefaultModel]

(***************************************************************************)
(* Tables (pandas DataFrames)                                              *)
(* cols: the column names in order; data[i]: the cells of column i, one    *)
(* per row; nrows: the number of rows.                                     *)
(***************************************************************************)
c_DATE     == <<"D","A","T","E">>
c_PE_RATIO == <<"P","E","_","R","A","T","I","O">>
c_PS_RATIO == <<"P","S","_","R","A","T","I","O">>

\* a parsed DATE cell: a timestamp, or NaT for a value that did not parse
NaT == [nat |-> TRUE, day |-> 0]
Timestamp(d) == [nat |-> FALSE, day |-> d]

\* Python None where a path is expected
None == "<None>"

\* name in df.columns
HasColumn(df, name) == \E i \in 1..Len(df.cols) : df.cols[i] = name

\* df[name]
Column(df, name) ==
    df.data[SetMin({i \in 1..Len(df.cols) : df.cols[i] = name})]

\* df.empty: no row or no column
IsEmpty(df) == df.nrows = 0 \/ Len(df.cols) = 0

RECURSIVE SeqMap(_, _)
SeqMap(Op(_), s) ==
    IF s = <<>> THEN <<>> ELSE <<Op(Head(s))>> \o SeqMap(Op, Tail(s))

(***************************************************************************)
(* create_graph_from_llm_specs                                             *)
(***************************************************************************)
k_Type   == <<"T","y","p","e">>
k_Title  == <<"T","i","t","l","e">>
k_X_axis == <<"X","-","a","x","i","s">>
k_Y_axis == <<"Y","-","a","x","i","s">>
k_Additional_elements ==
    <<"A","d","d","i","t","i","o","n","a","l"," ","e","l","e","m","e","n","t","s">>
v_stacked == <<"s","t","a","c","k","e","d">>
v_line    == <<"l","i","n","e">>
v_Date    == <<"D","a","t","e">>
v_default_title ==
    <<"N","V","I","D","I","A"," ","F","i","n","a","n","c","i","a","l"," ",
      "M","e","t","r","i","c","s">>
v_default_y_label ==
    <<"N","o","r","m","a","l","i","z","e","d"," ","V","a","l","u","e"," ",
      "(","0","-","1"," ","s","c","a","l","e",")">>
v_title_suffix == <<" ","(","N","o","r","m","a","l","i","z","e","d",")">>
chart_file_path == "llm_generated_graph.png"

\* a cell of the normalized table: the exact value num/den
Frac(n, d) == [num |-> n, den |-> d]

ColMin(col) == SetMin({col[r] : r \in 1..Len(col)})
ColMax(col) == SetMax({col[r] : r \in 1..Len(col)})

\* lines 123-126 for one column: min-max scaling, skipped when the range is 0
NormalizeColumn(col) ==
    IF col = <<>> THEN <<>>
    ELSE LET min_val == ColMin(col)
             max_val == ColMax(col)
             Scaled(v) == Frac(v - min_val, max_val - min_val)
             Kept(v)   == Frac(v, 1)
         IN  IF max_val - min_val # 0
             THEN SeqMap(Scaled, col)
             ELSE SeqMap(Kept, col)

\* lines 118-126: the copy of the table with every column but DATE scaled
Normalize(data) ==
    [cols  |-> data.cols,
     nrows |-> data.nrows,
     data  |-> [i \in 1..Len(data.cols) |->
                  IF data.cols[i] # c_DATE
                  THEN NormalizeColumn(data.data[i])
                  ELSE data.data[i]]]

\* line 133 without the call of lower()
GraphType_case_sensitive(specs) == DictGet(specs, k_Type, v_stacked)

\* line 133
GraphType(specs) == StrLower(DictGet(specs, k_Type, v_stacked))

\* df_normalized.columns[1:], the columns that get a colour and a series
DrawnColumns(df) == Tail(df.cols)

NoFigure == [kind |-> "none"]

\* the value returned when the except branch runs (lines 191-193)
RenderFailed == [path |-> None, figure |-> NoFigure]

\* The whole body.  backend_ok = FALSE: some matplotlib call raises.
\* stackplot sums its series, and timestamps do not add to numbers: the
\* call at line 144 raises when DATE is among the columns it is given.
\* The figure records what is drawn: the plot call, the series in drawing
\* order with their values, the title and axis labels, and the normalized
\* table the series are taken from.  The x tick texts are not recorded.
create_graph_from_llm_specs(data, specs, backend_ok) ==
    IF ~HasColumn(data, c_DATE) THEN RenderFailed
    ELSE IF ~backend_ok THEN RenderFailed
    ELSE LET df_normalized == Normalize(data)
             graph_type == GraphType(specs)
             drawn == DrawnColumns(df_normalized)
             Values(col) == Column(df_normalized, col)
         IN  IF graph_type = v_stacked /\ \E j \in 1..Len(drawn) : drawn[j] = c_DATE
             THEN RenderFailed
             ELSE
             [path   |-> chart_file_path,
              figure |->
                [kind   |-> IF graph_type = v_stacked THEN "stackplot" ELSE "plot",
                 series |-> drawn,
                 y      |-> SeqMap(Values, drawn),
                 title  |-> DictGet(specs, k_Title, v_default_title) \o v_title_suffix,
                 xlabel |-> DictGet(specs, k_X_axis, v_Date),
                 ylabel |-> DictGet(specs, k_Y_axis, v_default_y_label),
                 normalized |-> df_normalized]]

(***************************************************************************)
(* get_valuation_summary_with_llm_graph: fetch and validation              *)
(***************************************************************************)
E_NO_DATA ==
    <<"N","o"," ","d","a","t","a"," ","r","e","t","u","r","n","e","d"," ",
      "f","r","o","m"," ","S","n","o","w","f","l","a","k","e","."," ","E",
      "n","s","u","r","e"," ","t","h","e"," ","t","a","b","l","e"," ","c",
      "o","n","t","a","i","n","s"," ","d","a","t","a",".">>
E_DATE_UNPARSEABLE ==
    <<"T","h","e"," ","'","D","A","T","E","'"," ","c","o","l","u","m","n",
      " ","c","o","u","l","d"," ","n","o","t"," ","b","e"," ","p","a","r",
      "s","e","d"," ","a","s"," ","d","a","t","e","t","i","m","e",".">>
E_DATE_MISSING ==
    <<"T","h","e"," ","'","D","A","T","E","'"," ","c","o","l","u","m","n",
      " ","i","s"," ","m","i","s","s","i","n","g"," ","f","r","o","m"," ",
      "t","h","e"," ","d","a","t","a",".">>
E_NO_GRAPH ==
    <<"F","a","i","l","e","d"," ","t","o"," ","c","r","e","a","t","e"," ",
      "g","r","a","p","h"," ","f","r","o","m"," ","L","L","M"," ","s","p",
      "e","c","i","f","i","c","a","t","i","o","n","s",".">>
E_LLM_INVALID ==
    <<"L","L","M"," ","d","i","d"," ","n","o","t"," ","r","e","t","u","r",
      "n"," ","a"," ","v","a","l","i","d"," ","r","e","s","p","o","n","s",
      "e",".">>
\* str(KeyError('DATE'))
E_KEY_DATE == <<"'","D","A","T","E","'">>
AnalysisUnavailable ==
    <<"A","n","a","l","y","s","i","s"," ","u","n","a","v","a","i","l","a",
      "b","l","e"," ","-"," ">>
\* the model name of the entry point
MainModel ==
    <<"g","e","m","i","n","i","-","2",".","0","-","f","l","a","s","h">>

\* df.columns.str.upper().str.strip() on one name
NormalizeName(name) == StrStrip(StrUpper(name))

RenameColumns(df) == [df EXCEPT !.cols = SeqMap(NormalizeName, df.cols)]

\* pd.to_datetime(..., errors='coerce') on one raw cell
to_datetime(cell) ==
    CASE cell = "2024-01-01" -> Timestamp(1)
      [] cell = "2024-01-02" -> Timestamp(2)
      [] cell = "2024-01-03" -> Timestamp(3)
      [] OTHER -> NaT

\* df['DATE'] = pd.to_datetime(df['DATE'], errors='coerce')
ParseDateColumn(df) ==
    [df EXCEPT !.data = [i \in 1..Len(df.cols) |->
                           IF df.cols[i] = c_DATE
                           THEN SeqMap(to_datetime, df.data[i])
                           ELSE df.data[i]]]

\* df['DATE'].isnull().all()
AllNull(col) == \A r \in 1..Len(col) : col[r] = NaT

Failed(error) == [status |-> "failed", error |-> error]
NoError == <<>>

\* lines 200-212 where a missing DATE column is let through
fetch_validate_no_missing_check(raw) ==
    LET df == RenameColumns(raw)
    IN  IF IsEmpty(df) THEN [ok |-> FALSE, df |-> df, error |-> E_NO_DATA]
        ELSE IF HasColumn(df, c_DATE)
        THEN LET parsed == ParseDateColumn(df)
             IN  IF AllNull(Column(parsed, c_DATE))
                 THEN [ok |-> FALSE, df |-> parsed, error |-> E_DATE_UNPARSEABLE]
                 ELSE [ok |-> TRUE, df |-> parsed, error |-> NoError]
        ELSE [ok |-> TRUE, df |-> df, error |-> NoError]

\* lines 200-212 on the query result raw: the table as the later stages get
\* it, or the message of the ValueError raised
fetch_validate(raw) ==
    LET df == RenameColumns(raw)
    IN  IF IsEmpty(df) THEN [ok |-> FALSE, df |-> df, error |-> E_NO_DATA]
        ELSE IF HasColumn(df, c_DATE)
        THEN LET parsed == ParseDateColumn(df)
             IN  IF AllNull(Column(parsed, c_DATE))
                 THEN [ok |-> FALSE, df |-> parsed, error |-> E_DATE_UNPARSEABLE]
                 ELSE [ok |-> TRUE, df |-> parsed, error |-> NoError]
        ELSE [ok |-> FALSE, df |-> df, error |-> E_DATE_MISSING]

(***************************************************************************)
(* The two LLM stages.  An outcome says what the provider SDK does in one  *)
(* stage: the client constructor raises, invoke raises, invoke returns an  *)
(* object without usable content, or invoke returns a message with text.   *)
(***************************************************************************)
Outcome(kind, msg, text) == [kind |-> kind, msg |-> msg, text |-> text]

\* lines 218-224
default_graph_specs ==
    DictSet(DictSet(DictSet(DictSet(DictSet(EmptyDict,
        k_Title, <<"D","e","f","a","u","l","t"," ","G","r","a","p","h">>),
        k_Type, v_line),
        k_X_axis, v_Date),
        k_Y_axis, <<"V","a","l","u","e">>),
        k_Additional_elements, <<"g","r","i","d",","," ","l","e","g","e","n","d">>)

\* get_graph_specs_from_llm where an exception leaves the function
get_graph_specs_from_llm_reraise(model_name, outcome) ==
    IF outcome.kind = "init_raises"
    THEN [specs |-> EmptyDict, llm |-> <<>>, raised |-> TRUE, error |-> outcome.msg]
    ELSE LET llm == <<initialize_llm(model_name)>>
         IN  IF outcome.kind = "invoke_raises"
             THEN [specs |-> EmptyDict, llm |-> llm, raised |-> TRUE,
                   error |-> outcome.msg]
             ELSE IF outcome.kind = "no_content"
             THEN [specs |-> EmptyDict, llm |-> llm, raised |-> TRUE,
                   error |-> E_LLM_INVALID]
             ELSE [specs |-> parse_response(outcome.text), llm |-> llm,
                   raised |-> FALSE, error |-> NoError]

\* get_graph_specs_from_llm (lines 69-109): the mapping returned, the
\* client constructed, whether an exception left the function (never), and
\* the message its handler printed
get_graph_specs_from_llm(model_name, outcome) ==
    IF outcome.kind = "init_raises"
    THEN [specs |-> EmptyDict, llm |-> <<>>, raised |-> FALSE, error |-> outcome.msg]
    ELSE LET llm == <<initialize_llm(model_name)>>
         IN  IF outcome.kind = "invoke_raises"
             THEN [specs |-> EmptyDict, llm |-> llm, raised |-> FALSE,
                   error |-> outcome.msg]
             ELSE IF outcome.kind = "no_content"
             THEN [specs |-> EmptyDict, llm |-> llm, raised |-> FALSE,
                   error |-> E_LLM_INVALID]
             ELSE [specs |-> parse_response(outcome.text), llm |-> llm,
                   raised |-> FALSE, error |-> NoError]

\* str(response) of a response object without a content attribute
ResponseRepr == <<"<","r","e","s","p","o","n","s","e",">">>

\* os.path.exists on the chart file
Exists(f, path) == path = chart_file_path /\ f.exists

\* lines 313-320
FinalChartPath(inner, f) ==
    LET chart_path == IF "chart_path" \in DOMAIN inner THEN inner.chart_path
                      ELSE chart_file_path
    IN  IF ~Exists(f, chart_path) /\ Exists(f, chart_file_path)
        THEN chart_file_path
        ELSE chart_path

\* lines 291-331 of get_ai_analysis_with_graph, after the inner result
\* passed the status test: the record returned and the client constructed
narrate(inner, model_name, outcome, f) ==
    IF outcome.kind = "init_raises"
    THEN [result |-> Failed(AnalysisUnavailable \o outcome.msg), llm |-> <<>>]
    ELSE LET llm == <<initialize_llm(model_name)>>
         IN  IF outcome.kind = "invoke_raises"
             THEN [result |-> Failed(AnalysisUnavailable \o outcome.msg), llm |-> llm]
             ELSE [result |->
                     [status      |-> "success",
                      analysis    |-> IF outcome.kind = "content" THEN outcome.text
                                      ELSE ResponseRepr,
                      chart_path  |-> FinalChartPath(inner, f),
                      summary     |-> inner.summary,
                      graph_specs |-> inner.graph_specs],
                   llm |-> llm]

(***************************************************************************)
(* The chart file on disk.  savefig opens the file for writing, which      *)
(* truncates it, writes, and closes; nothing locks the file.               *)
(* writing: the invocations that hold it open; clash: those whose write    *)
(* overlapped another's; last: the invocation that closed it last.         *)
(***************************************************************************)
NoFile == [exists |-> FALSE, content |-> "absent", figure |-> NoFigure,
           writing |-> {}, clash |-> {}, last |-> 0]

savefig_open(f, i) ==
    [f EXCEPT !.exists = TRUE, !.content = "truncated", !.figure = NoFigure,
              !.clash = IF f.writing # {} THEN f.clash \cup f.writing \cup {i}
                        ELSE f.clash,
              !.writing = f.writing \cup {i}]

\* the ways the write of invocation i can end up: intact, or not
SaveOutcomes(f, i) ==
    IF f.writing \ {i} # {} THEN {FALSE}
    ELSE IF i \in f.clash THEN BOOLEAN
    ELSE {TRUE}

\* a close that loses the bytes written since the file was opened
savefig_close_loses_write(f, i, figure, intact) ==
    [f EXCEPT !.writing = f.writing \ {i}, !.clash = f.clash \ {i}, !.last = i,
              !.content = IF intact THEN "figure" ELSE "corrupt",
              !.figure = f.figure]

savefig_close(f, i, figure, intact) ==
    [f EXCEPT !.writing = f.writing \ {i}, !.clash = f.clash \ {i}, !.last = i,
              !.content = IF intact THEN "figure" ELSE "corrupt",
              !.figure = IF intact THEN figure ELSE NoFigure]

(***************************************************************************)
(* The two queries and get_valuation_summary                               *)
(***************************************************************************)
\* LIMIT 10 of the query at line 198
FetchLimit == 10
\* LIMIT 5 of the query at line 34
SummaryLimit == 5

\* the first n rows of t
Limit(t, n) ==
    LET k == IF t.nrows < n THEN t.nrows ELSE n
    IN  [t EXCEPT !.nrows = k,
                  !.data = [i \in 1..Len(t.cols) |-> SubSeq(t.data[i], 1, k)]]

\* the rows of t in the opposite order (ORDER BY DATE DESC)
ReverseRows(t) ==
    [t EXCEPT !.data = [i \in 1..Len(t.cols) |->
                          [r \in 1..t.nrows |-> t.data[i][t.nrows + 1 - r]]]]

\* the rows at which a value of col appears for the first time, ascending
FirstRows(col) ==
    {r \in 1..Len(col) : \A q \in 1..(r - 1) : col[q] # col[r]}

RECURSIVE Ascending(_)
\* the members of a set of numbers, smallest first
Ascending(S) ==
    IF S = {} THEN <<>> ELSE <<SetMin(S)>> \o Ascending(S \ {SetMin(S)})

\* lines 42-44: one group of bars per distinct DATE, taken from the first
\* row with that DATE, one bar per column after the first
Bars(d) ==
    LET dates == Column(d, c_DATE)
        Group(r) == [label   |-> dates[r],
                     x       |-> Tail(d.cols),
                     heights |-> [j \in 1..(Len(d.cols) - 1) |-> d.data[j + 1][r]]]
    IN  SeqMap(Group, Ascending(FirstRows(dates)))

\* get_valuation_summary (lines 30-68).  raw: the result of the query;
\* outcome: what the collaborators do (read_sql raises, a matplotlib call
\* raises, or neither)
get_valuation_summary(raw, outcome) ==
    IF outcome.kind = "read_sql_raises" THEN Failed(outcome.msg)
    ELSE LET d == RenameColumns(raw)
         IN  IF IsEmpty(d) THEN Failed(E_NO_DATA)
             ELSE IF ~HasColumn(d, c_DATE) THEN Failed(E_KEY_DATE)
             ELSE IF outcome.kind = "plot_raises" THEN Failed(outcome.msg)
             ELSE [chart   |-> [kind |-> "bar", groups |-> Bars(d)],
                   summary |-> d,
                   status  |-> "success"]

(***************************************************************************)
(* State                                                                   *)
(***************************************************************************)
VARIABLES
    warehouse,    \* the rows of Valuation_Measures in ascending DATE order
    file,         \* the chart file llm_generated_graph.png in the working directory
    pc,           \* per invocation: the stage it is about to run
    df,           \* per invocation: the table of get_valuation_summary_with_llm_graph
    llm_specs,    \* per invocation: what get_graph_specs_from_llm returned
    graph_specs,  \* per invocation: the mapping handed to the renderer
    chart,        \* per invocation: what create_graph_from_llm_specs produced
    inner,        \* per invocation: the record of get_valuation_summary_with_llm_graph
    result,       \* per invocation: the record of get_ai_analysis_with_graph
    calls,        \* per invocation: the stages invoked so far, in order
    llms,         \* per invocation: the LLM clients constructed, with their stage
    faults,       \* per invocation: the failures of the collaborators so far
    stdout,       \* per invocation: what was printed, and by which function
    exit,         \* per invocation: how the process ended
    summary,      \* a direct call of get_valuation_summary
    parser,       \* a direct use of the response parser: text in, mapping out
    dispatch,     \* a direct call of initialize_llm: model name in, client out
    renderer      \* a direct call of create_graph_from_llm_specs

runVars == <<pc, df, llm_specs, graph_specs, chart, inner, result, calls, llms,
             faults, stdout, exit>>
pipelineVars == <<warehouse, file, pc, df, llm_specs, graph_specs, chart, inner,
                  result, calls, llms, faults, stdout, exit, summary>>
harnessVars == <<parser, dispatch, renderer>>
vars == <<warehouse, file, pc, df, llm_specs, graph_specs, chart, inner, result,
          calls, llms, faults, stdout, exit, summary, parser, dispatch, renderer>>

(***************************************************************************)
(* Inputs                                                                  *)
(***************************************************************************)
\* the characters of the response texts given to the parser on its own
ParseAlphabet == {"a", ":", " ", "\n"}

RECURSIVE SeqsUpTo(_, _)
\* every sequence over S of length at most n
SeqsUpTo(S, n) ==
    IF n = 0 THEN {<<>>}
    ELSE LET shorter == SeqsUpTo(S, n - 1)
         IN  shorter \cup {Append(t, c) : t \in shorter, c \in S}

Texts == SeqsUpTo(ParseAlphabet, MaxTextLen)

\* pieces of model names: the four provider words, a capitalised variant
\* that no test matches, and filler
NameFragments ==
    {s_claude, s_gemini, s_deepseek, s_grok,
     <<"C","l","a","u","d","e">>, <<"g","p","t">>, <<"-","2">>}

RECURSIVE Concat(_)
Concat(ss) == IF ss = <<>> THEN <<>> ELSE Head(ss) \o Concat(Tail(ss))

ModelNames == {Concat(fs) : fs \in SeqsUpTo(NameFragments, MaxFragments)}

\* column orders of the tables given to the renderer on its own
RenderLayouts ==
    {<<c_DATE, c_PE_RATIO, c_PS_RATIO>>, <<c_DATE, c_PE_RATIO>>,
     <<c_PE_RATIO, c_DATE>>, <<c_PE_RATIO>>}

\* the parsed DATE column of an n-row table: one day per row, ascending
DateColumn(n) == [r \in 1..n |-> Timestamp(r)]

MetricColumns(n) == [1..n -> 0..MaxVal]

RECURSIVE ColumnData(_, _)
\* every choice of cells for the columns named by layout, n rows each
ColumnData(layout, n) ==
    IF layout = <<>> THEN {<<>>}
    ELSE LET choices == IF Head(layout) = c_DATE THEN {DateColumn(n)}
                        ELSE MetricColumns(n)
         IN  {<<c>> \o rest : c \in choices, rest \in ColumnData(Tail(layout), n)}

RenderTables ==
    UNION {{[cols |-> layout, nrows |-> n, data |-> d] : d \in ColumnData(layout, n)} :
             layout \in RenderLayouts, n \in 1..MaxRows}

\* spec mappings given to the renderer on its own
RenderSpecs ==
    {EmptyDict,
     DictSet(EmptyDict, k_Type, v_stacked),
     DictSet(EmptyDict, k_Type, <<"S","T","A","C","K","E","D">>),
     DictSet(EmptyDict, k_Type, <<"S","t","a","c","k","e","d">>),
     DictSet(EmptyDict, k_Type, v_line),
     DictSet(EmptyDict, k_Type, <<>>),
     DictSet(EmptyDict, k_Title, <<"Q","1">>),
     DictSet(EmptyDict, <<"-"," ","T","y","p","e">>, v_line),
     DictSet(DictSet(EmptyDict, k_Title, <<"Q","1">>), k_Type, <<"b","a","r">>)}

NoTable == [cols |-> <<>>, nrows |-> 0, data |-> <<>>]

\* the processes that run the script in the same working directory
Invocations == {1, 2}

\* column names as the warehouse driver reports them
w_date     == <<"d","a","t","e">>
w_Date     == <<" ","D","a","t","e"," ">>
w_pe_ratio == <<"p","e","_","r","a","t","i","o">>
w_ps_ratio == <<"p","s","_","r","a","t","i","o">>

WarehouseLayouts ==
    {<<w_date, w_pe_ratio, w_ps_ratio>>, <<w_Date, w_pe_ratio>>,
     <<w_pe_ratio, w_date>>, <<w_pe_ratio, w_ps_ratio>>}

\* raw DATE cells: two dates and a text that is no date
RawDateCells == {"2024-01-01", "2024-01-02", "n/a"}

IsDateName(name) == NormalizeName(name) = c_DATE

\* metric columns of the warehouse table: a value per row that differs
\* from row to row, or the same value in every row
WarehouseMetricColumns(n) == {[r \in 1..n |-> r], [r \in 1..n |-> 1]}

RECURSIVE RawColumnData(_, _)
RawColumnData(layout, n) ==
    IF layout = <<>> THEN {<<>>}
    ELSE LET choices == IF IsDateName(Head(layout)) THEN [1..n -> RawDateCells]
                        ELSE WarehouseMetricColumns(n)
         IN  {<<c>> \o rest : c \in choices, rest \in RawColumnData(Tail(layout), n)}

WarehouseTables ==
    UNION {{[cols |-> layout, nrows |-> n, data |-> d] : d \in RawColumnData(layout, n)} :
             layout \in WarehouseLayouts, n \in 0..MaxWarehouseRows}

\* str(e) of the exceptions the collaborators raise
ExternalErrors == {<<"t","i","m","e","o","u","t">>, <<>>}

\* response texts of the LLM in the SpecAdvisor stage
AdvisorReplies ==
    {<<"T","y","p","e",":"," ","l","i","n","e">>,
     <<"T","y","p","e",":"," ","S","T","A","C","K","E","D">>,
     <<"-"," ","T","y","p","e",":"," ","l","i","n","e">>,
     <<"T","i","t","l","e",":"," ","Q","1">>,
     <<"n","o"," ","s","p","e","c","s">>}

\* response texts of the LLM in the InsightNarrator stage
NarratorReplies == {<<"N","V","D","A"," ","u","p">>, <<>>}

LLMOutcomes(replies) ==
    {Outcome("init_raises", m, <<>>) : m \in ExternalErrors}
    \cup {Outcome("invoke_raises", m, <<>>) : m \in ExternalErrors}
    \cup {Outcome("no_content", <<>>, <<>>)}
    \cup {Outcome("content", <<>>, t) : t \in replies}

ParserIdle   == [response_text |-> <<>>, returned |-> FALSE, specs |-> EmptyDict]
DispatchIdle == [model_name |-> <<>>, returned |-> FALSE,
                 llm |-> [client |-> "none", model |-> <<>>], constructed |-> <<>>]

NoResult == [status |-> "none"]
SummaryIdle == [returned |-> FALSE, outcome |-> Outcome("none", <<>>, <<>>),
                result |-> NoResult]

\* no invocation has started
RunInit ==
    /\ file = NoFile
    /\ pc = [i \in Invocations |-> "DataFetcher"]
    /\ df = [i \in Invocations |-> NoTable]
    /\ llm_specs = [i \in Invocations |-> EmptyDict]
    /\ graph_specs = [i \in Invocations |-> EmptyDict]
    /\ chart = [i \in Invocations |-> RenderFailed]
    /\ inner = [i \in Invocations |-> NoResult]
    /\ result = [i \in Invocations |-> NoResult]
    /\ calls = [i \in Invocations |-> <<>>]
    /\ llms = [i \in Invocations |-> <<>>]
    /\ faults = [i \in Invocations |-> <<>>]
    /\ stdout = [i \in Invocations |-> <<>>]
    /\ exit = [i \in Invocations |-> "running"]
    /\ summary = SummaryIdle

PipelineIdle == warehouse = NoTable /\ RunInit

RendererIdle == [data |-> NoTable, specs |-> EmptyDict, backend_ok |-> TRUE,
                 returned |-> FALSE, out |-> RenderFailed]

(***************************************************************************)
(* The response parser on its own                                          *)
(***************************************************************************)
InitParse ==
    /\ \E t \in Texts : parser = [ParserIdle EXCEPT !.response_text = t]
    /\ dispatch = DispatchIdle
    /\ renderer = RendererIdle
    /\ PipelineIdle

ParseCall ==
    /\ ~parser.returned
    /\ parser' = [parser EXCEPT !.returned = TRUE,
                                !.specs = parse_response(parser.response_text)]
    /\ UNCHANGED <<dispatch, renderer>>
    /\ UNCHANGED pipelineVars

(***************************************************************************)
(* initialize_llm on its own                                               *)
(***************************************************************************)
InitDispatch ==
    /\ \E n \in ModelNames : dispatch = [DispatchIdle EXCEPT !.model_name = n]
    /\ parser = ParserIdle
    /\ renderer = RendererIdle
    /\ PipelineIdle

\* one call; constructed lists the client constructors that ran
InitializeLLMCall ==
    /\ ~dispatch.returned
    /\ LET llm == initialize_llm(dispatch.model_name)
       IN  dispatch' = [dispatch EXCEPT !.returned = TRUE,
                                        !.llm = llm,
                                        !.constructed = Append(@, llm.client)]
    /\ UNCHANGED <<parser, renderer>>
    /\ UNCHANGED pipelineVars

(***************************************************************************)
(* create_graph_from_llm_specs on its own                                  *)
(***************************************************************************)
InitRender ==
    /\ \E t \in RenderTables, sp \in RenderSpecs, ok \in BOOLEAN :
         renderer = [RendererIdle EXCEPT !.data = t, !.specs = sp, !.backend_ok = ok]
    /\ parser = ParserIdle
    /\ dispatch = DispatchIdle
    /\ PipelineIdle

RenderCall ==
    /\ ~renderer.returned
    /\ renderer' =
         [renderer EXCEPT !.returned = TRUE,
                          !.out = create_graph_from_llm_specs(
                                      renderer.data, renderer.specs, renderer.backend_ok)]
    /\ UNCHANGED <<parser, dispatch>>
    /\ UNCHANGED pipelineVars

(***************************************************************************)
(* The pipeline: one process per invocation runs the script, that is       *)
(* get_ai_analysis_with_graph with the entry point's model name and then   *)
(* the print of the entry point.  Each action is one stage up to its next  *)
(* blocking call on a collaborator.                                        *)
(***************************************************************************)
Line(by, what, text) == [by |-> by, what |-> what, text |-> text]
Fault(stage, what, msg) == [stage |-> stage, what |-> what, msg |-> msg]
Client(stage, llm) == [stage |-> stage, client |-> llm.client, model |-> llm.model]

\* lines 238-243 and 288-289: the except branch of
\* get_valuation_summary_with_llm_graph, then the status test of
\* get_ai_analysis_with_graph, which returns the error unchanged;
\* before: the lines printed by the stage that failed
FailInner(i, error, before) ==
    /\ inner' = [inner EXCEPT ![i] = Failed(error)]
    /\ result' = [result EXCEPT ![i] = Failed(inner'[i].error)]
    /\ stdout' = [stdout EXCEPT ![i] =
                    @ \o before
                      \o <<Line("get_valuation_summary_with_llm_graph", "error", error)>>]
    /\ pc' = [pc EXCEPT ![i] = "returned"]

\* lines 196-212
DataFetcher(i) ==
    /\ pc[i] = "DataFetcher"
    /\ calls' = [calls EXCEPT ![i] = Append(@, "DataFetcher")]
    /\ \/ \E m \in ExternalErrors :
            /\ faults' = [faults EXCEPT ![i] = Append(@, Fault("DataFetcher", "read_sql", m))]
            /\ FailInner(i, m, <<>>)
            /\ UNCHANGED df
       \/ LET v == fetch_validate(Limit(warehouse, FetchLimit))
          IN  /\ df' = [df EXCEPT ![i] = v.df]
              /\ IF v.ok
                 THEN /\ pc' = [pc EXCEPT ![i] = "SpecAdvisor"]
                      /\ UNCHANGED <<inner, result, stdout>>
                 ELSE FailInner(i, v.error, <<>>)
              /\ UNCHANGED faults
    /\ UNCHANGED <<warehouse, file, llm_specs, graph_specs, chart, llms, exit, summary>>
    /\ UNCHANGED harnessVars

\* lines 214-224, with get_graph_specs_from_llm
SpecAdvisor(i) ==
    /\ pc[i] = "SpecAdvisor"
    /\ calls' = [calls EXCEPT ![i] = Append(@, "SpecAdvisor")]
    /\ \E o \in LLMOutcomes(AdvisorReplies) :
         LET r == get_graph_specs_from_llm(MainModel, o)
             failed == o.kind # "content"
             caught == IF failed
                       THEN <<Line("get_graph_specs_from_llm", "error", r.error)>>
                       ELSE <<>>
             defaulted == IF r.specs = EmptyDict
                          THEN <<Line("get_valuation_summary_with_llm_graph",
                                      "default-specs", <<>>)>>
                          ELSE <<>>
         IN  /\ llms' = [llms EXCEPT ![i] =
                           @ \o IF r.llm = <<>> THEN <<>>
                                ELSE <<Client("SpecAdvisor", r.llm[1])>>]
             /\ faults' = [faults EXCEPT ![i] =
                             IF failed THEN Append(@, Fault("SpecAdvisor", o.kind, r.error))
                             ELSE @]
             /\ IF r.raised
                THEN /\ FailInner(i, r.error, <<>>)
                     /\ UNCHANGED <<llm_specs, graph_specs>>
                ELSE /\ llm_specs' = [llm_specs EXCEPT ![i] = r.specs]
                     /\ graph_specs' = [graph_specs EXCEPT ![i] =
                                          IF r.specs = EmptyDict THEN default_graph_specs
                                          ELSE r.specs]
                     /\ stdout' = [stdout EXCEPT ![i] = @ \o caught \o defaulted]
                     /\ pc' = [pc EXCEPT ![i] = "ChartRenderer"]
                     /\ UNCHANGED <<inner, result>>
    /\ UNCHANGED <<warehouse, file, df, chart, exit, summary>>
    /\ UNCHANGED harnessVars

\* lines 226-229, with create_graph_from_llm_specs up to the point where
\* savefig has opened the chart file; the text of the renderer's error
\* line is not recorded
ChartRenderer(i) ==
    /\ pc[i] = "ChartRenderer"
    /\ calls' = [calls EXCEPT ![i] = Append(@, "ChartRenderer")]
    /\ \E ok \in BOOLEAN :
         LET out == create_graph_from_llm_specs(df[i], graph_specs[i], ok)
         IN  /\ chart' = [chart EXCEPT ![i] = out]
             /\ faults' = [faults EXCEPT ![i] =
                             IF ok THEN @
                             ELSE Append(@, Fault("ChartRenderer", "matplotlib", <<>>))]
             /\ IF out.path = None
                THEN /\ FailInner(i, E_NO_GRAPH,
                                  <<Line("create_graph_from_llm_specs", "error", <<>>)>>)
                     /\ UNCHANGED file
                ELSE /\ file' = savefig_open(file, i)
                     /\ pc' = [pc EXCEPT ![i] = "savefig"]
                     /\ UNCHANGED <<inner, result, stdout>>
    /\ UNCHANGED <<warehouse, df, llm_specs, graph_specs, llms, exit, summary>>
    /\ UNCHANGED harnessVars

\* lines 181-190 and 228-237: savefig writes and closes the file, or raises
\* while writing; then the success record of
\* get_valuation_summary_with_llm_graph
SaveFig(i) ==
    /\ pc[i] = "savefig"
    /\ \/ /\ file' = savefig_close(file, i, chart[i].figure, FALSE)
          /\ chart' = [chart EXCEPT ![i] = RenderFailed]
          /\ faults' = [faults EXCEPT ![i] =
                          Append(@, Fault("ChartRenderer", "savefig", <<>>))]
          /\ FailInner(i, E_NO_GRAPH,
                       <<Line("create_graph_from_llm_specs", "error", <<>>)>>)
       \/ \E intact \in SaveOutcomes(file, i) :
            /\ file' = savefig_close(file, i, chart[i].figure, intact)
            /\ inner' = [inner EXCEPT ![i] =
                           [summary     |-> df[i],
                            chart_path  |-> chart[i].path,
                            graph_specs |-> graph_specs[i],
                            status      |-> "success"]]
            /\ pc' = [pc EXCEPT ![i] = "InsightNarrator"]
            /\ UNCHANGED <<chart, faults, result, stdout>>
    /\ UNCHANGED <<warehouse, df, llm_specs, graph_specs, calls, llms, exit, summary>>
    /\ UNCHANGED harnessVars

\* lines 291-331
InsightNarrator(i) ==
    /\ pc[i] = "InsightNarrator"
    /\ calls' = [calls EXCEPT ![i] = Append(@, "InsightNarrator")]
    /\ \E o \in LLMOutcomes(NarratorReplies) :
         LET r == narrate(inner[i], MainModel, o, file)
             failed == o.kind \in {"init_raises", "invoke_raises"}
         IN  /\ result' = [result EXCEPT ![i] = r.result]
             /\ llms' = [llms EXCEPT ![i] =
                           @ \o IF r.llm = <<>> THEN <<>>
                                ELSE <<Client("InsightNarrator", r.llm[1])>>]
             /\ faults' = [faults EXCEPT ![i] =
                             IF failed THEN Append(@, Fault("InsightNarrator", o.kind, o.msg))
                             ELSE @]
             /\ stdout' = [stdout EXCEPT ![i] =
                             IF failed
                             THEN Append(@, Line("get_ai_analysis_with_graph", "error", o.msg))
                             ELSE IF ~Exists(file, inner[i].chart_path)
                             THEN Append(@, Line("get_ai_analysis_with_graph",
                                                 "chart-missing", <<>>))
                             ELSE @]
    /\ pc' = [pc EXCEPT ![i] = "returned"]
    /\ UNCHANGED <<warehouse, file, df, llm_specs, graph_specs, chart, inner, exit, summary>>
    /\ UNCHANGED harnessVars

\* lines 335-340: print(analysis["analysis"]); a record without that key
\* raises KeyError, which nothing catches
Main(i) ==
    /\ pc[i] = "returned"
    /\ IF "analysis" \in DOMAIN result[i]
       THEN /\ stdout' = [stdout EXCEPT ![i] =
                            Append(@, Line("__main__", "analysis", result[i].analysis))]
            /\ exit' = [exit EXCEPT ![i] = "normal"]
       ELSE /\ exit' = [exit EXCEPT ![i] = "KeyError"]
            /\ UNCHANGED stdout
    /\ pc' = [pc EXCEPT ![i] = "exited"]
    /\ UNCHANGED <<warehouse, file, df, llm_specs, graph_specs, chart, inner, result,
                   calls, llms, faults, summary>>
    /\ UNCHANGED harnessVars

\* the process of invocation i calls get_valuation_summary instead of
\* running the script; the query is the one in descending order
GetValuationSummary(i) ==
    /\ pc[i] = "DataFetcher"
    /\ ~summary.returned
    /\ \E o \in {Outcome("read_sql_raises", m, <<>>) : m \in ExternalErrors}
                \cup {Outcome("plot_raises", m, <<>>) : m \in ExternalErrors}
                \cup {Outcome("ok", <<>>, <<>>)} :
         summary' = [returned |-> TRUE,
                     outcome  |-> o,
                     result   |-> get_valuation_summary(
                                      Limit(ReverseRows(warehouse), SummaryLimit), o)]
    /\ pc' = [pc EXCEPT ![i] = "summary-returned"]
    /\ UNCHANGED <<warehouse, file, df, llm_specs, graph_specs, chart, inner, result,
                   calls, llms, faults, stdout, exit>>
    /\ UNCHANGED harnessVars

Init ==
    /\ warehouse \in WarehouseTables
    /\ RunInit
    /\ parser = ParserIdle
    /\ dispatch = DispatchIdle
    /\ renderer = RendererIdle

\* the table of the end-to-end scenario: DATE and two metrics, all rows
\* with a date, the first metric with distinct values
RaceTables ==
    {t \in WarehouseTables :
        /\ t.cols = <<w_date, w_pe_ratio, w_ps_ratio>>
        /\ t.nrows = MaxWarehouseRows
        /\ \A r \in 1..t.nrows : t.data[1][r] = "2024-01-01"
        /\ \A r \in 1..t.nrows : t.data[2][r] = r
        /\ \A r \in 1..t.nrows : t.data[3][r] = 1}

InitRace ==
    /\ warehouse \in RaceTables
    /\ RunInit
    /\ parser = ParserIdle
    /\ dispatch = DispatchIdle
    /\ renderer = RendererIdle

Step(i) ==
    \/ DataFetcher(i)
    \/ SpecAdvisor(i)
    \/ ChartRenderer(i)
    \/ SaveFig(i)
    \/ InsightNarrator(i)
    \/ Main(i)

\* one process: a run of the script, or a call of get_valuation_summary
Next == Step(1) \/ GetValuationSummary(1)

\* two runs of the script in the same working directory
NextRace == \E i \in Invocations : Step(i)

NextParse    == ParseCall
NextDispatch == InitializeLLMCall
NextRender   == RenderCall

SpecParse    == InitParse /\ [][NextParse]_vars
SpecDispatch == InitDispatch /\ [][NextDispatch]_vars
SpecRender   == InitRender /\ [][NextRender]_vars
Spec         == Init /\ [][Next]_vars
SpecRace     == InitRace /\ [][NextRace]_vars

(***************************************************************************)
(* Properties of the response parser                                       *)
(***************************************************************************)
HasColon(line) == \E i \in 1..Len(line) : line[i] = ":"
FirstColon(line) == CHOOSE i \in 1..Len(line) :
                        line[i] = ":" /\ \A j \in 1..(i - 1) : line[j] # ":"
\* the text before the first colon and the whole remainder, both trimmed
KeyOf(line)   == StrStrip(SubSeq(line, 1, FirstColon(line) - 1))
ValueOf(line) == StrStrip(SubSeq(line, FirstColon(line) + 1, Len(line)))

ParsedLines == StrSplit(parser.response_text, "\n")

\* C5 as stated: the mapping has, for every line with a colon, the entry
\* key |-> remainder of THAT line; lines without a colon add nothing; text
\* without any colon gives the empty mapping.
C5_EveryColonLineIsAnEntry ==
    parser.returned =>
        /\ \A n \in 1..Len(ParsedLines) :
             HasColon(ParsedLines[n]) =>
                /\ KeyOf(ParsedLines[n]) \in DOMAIN parser.specs
                /\ parser.specs[KeyOf(ParsedLines[n])] = ValueOf(ParsedLines[n])
        /\ \A k \in DOMAIN parser.specs :
             \E n \in 1..Len(ParsedLines) :
                HasColon(ParsedLines[n]) /\ KeyOf(ParsedLines[n]) = k
        /\ (~HasColon(parser.response_text) => parser.specs = EmptyDict)

\* the last line with a colon whose key is k
LastLineWithKey(k) ==
    SetMax({n \in 1..Len(ParsedLines) :
              HasColon(ParsedLines[n]) /\ KeyOf(ParsedLines[n]) = k})

\* C5 amended: the keys of the mapping are exactly the keys of the lines
\* with a colon, and each key maps to the remainder of the LAST line that
\* has this key; lines without a colon add nothing; text without any colon
\* gives the empty mapping.
C5_ParserLastLineWins ==
    parser.returned =>
        /\ \A n \in 1..Len(ParsedLines) :
             HasColon(ParsedLines[n]) => KeyOf(ParsedLines[n]) \in DOMAIN parser.specs
        /\ \A k \in DOMAIN parser.specs :
             /\ \E n \in 1..Len(ParsedLines) :
                  HasColon(ParsedLines[n]) /\ KeyOf(ParsedLines[n]) = k
             /\ parser.specs[k] = ValueOf(ParsedLines[LastLineWithKey(k)])
        /\ (~HasColon(parser.response_text) => parser.specs = EmptyDict)

\* two lines with the same key and different remainders have been parsed,
\* and one of them has a second colon that stays in the value
C5_Witness ==
    /\ parser.returned
    /\ \E m, n \in 1..Len(ParsedLines) :
         /\ m < n
         /\ HasColon(ParsedLines[m]) /\ HasColon(ParsedLines[n])
         /\ KeyOf(ParsedLines[m]) = KeyOf(ParsedLines[n])
         /\ ValueOf(ParsedLines[m]) # ValueOf(ParsedLines[n])
         /\ HasColon(ValueOf(ParsedLines[m]))

(***************************************************************************)
(* Properties of the provider dispatch                                     *)
(***************************************************************************)
\* C6: the client is the one of the first matching word in the order
\* claude, gemini, deepseek, grok, built for the given model name; a name
\* with none of the words gets the Anthropic client with the fixed model;
\* one client is constructed per call.
C6_DispatchByFirstMatch ==
    dispatch.returned =>
        LET n == dispatch.model_name
            has_claude   == StrContains(n, s_claude)
            has_gemini   == StrContains(n, s_gemini)
            has_deepseek == StrContains(n, s_deepseek)
            has_grok     == StrContains(n, s_grok)
            llm == dispatch.llm
        IN  /\ Len(dispatch.constructed) = 1
            /\ dispatch.constructed[1] = llm.client
            /\ has_claude => llm.client = "ChatAnthropic" /\ llm.model = n
            /\ ~has_claude /\ has_gemini =>
                 llm.client = "ChatGoogleGenerativeAI" /\ llm.model = n
            /\ ~has_claude /\ ~has_gemini /\ has_deepseek =>
                 llm.client = "ChatOpenAI" /\ llm.model = n
            /\ ~has_claude /\ ~has_gemini /\ ~has_deepseek /\ has_grok =>
                 llm.client = "ChatGroq" /\ llm.model = n
            /\ ~has_claude /\ ~has_gemini /\ ~has_deepseek /\ ~has_grok =>
                 llm.client = "ChatAnthropic" /\ llm.model = DefaultModel

\* a name holding both gemini and claude, gemini first, got the Anthropic client
C6_Witness ==
    /\ dispatch.returned
    /\ dispatch.model_name = s_gemini \o s_claude
    /\ dispatch.llm.client = "ChatAnthropic"

(***************************************************************************)
(* Properties of the renderer                                              *)
(***************************************************************************)
Rendered == renderer.returned /\ renderer.out.path # None

\* C2 as stated: the stacked-area path is taken exactly when the Type
\* value, compared case-insensitively, is "stacked"; an absent Type takes
\* the line path.
C2_StackedOnlyWhenTypeSaysSo ==
    Rendered =>
        (renderer.out.figure.kind = "stackplot"
            <=> /\ k_Type \in DOMAIN renderer.specs
                /\ StrLower(renderer.specs[k_Type]) = v_stacked)

\* C2 amended: the stacked-area path is taken exactly when the Type key is
\* absent or its value, compared case-insensitively, is "stacked"; every
\* other spec takes the line path.
C2_StackedWhenAbsentOrStacked ==
    Rendered =>
        /\ renderer.out.figure.kind \in {"stackplot", "plot"}
        /\ renderer.out.figure.kind = "stackplot"
             <=> \/ k_Type \notin DOMAIN renderer.specs
                 \/ StrLower(renderer.specs[k_Type]) = v_stacked

\* a mapping with other keys but no Type was drawn as a stacked-area plot
C2_Witness ==
    /\ Rendered
    /\ renderer.specs # EmptyDict
    /\ k_Type \notin DOMAIN renderer.specs
    /\ renderer.out.figure.kind = "stackplot"

IsZero(f) == f.num = 0
IsOne(f)  == f.num = f.den

\* C3 as stated: in the normalized table every column but DATE has its
\* minimum at 0 and its maximum at 1, and a column whose maximum equals its
\* minimum is 0 in every row.
C3_MinToZeroMaxToOne ==
    Rendered =>
        \A i \in 1..Len(renderer.data.cols) :
            renderer.data.cols[i] # c_DATE =>
                LET raw  == renderer.data.data[i]
                    norm == renderer.out.figure.normalized.data[i]
                    lo   == SetMin({raw[r] : r \in 1..Len(raw)})
                    hi   == SetMax({raw[r] : r \in 1..Len(raw)})
                IN  \A r \in 1..Len(raw) :
                        /\ hi # lo /\ raw[r] = lo => IsZero(norm[r])
                        /\ hi # lo /\ raw[r] = hi => IsOne(norm[r])
                        /\ hi = lo => IsZero(norm[r])

\* C10 as stated: the columns drawn as series are exactly the columns
\* other than DATE, wherever DATE stands in the table.
C10_SeriesAreTheNormalizedColumns ==
    Rendered =>
        LET series == renderer.out.figure.series
            cols   == renderer.data.cols
        IN  /\ {series[j] : j \in 1..Len(series)}
               = {cols[i] : i \in 1..Len(cols)} \ {c_DATE}
            /\ \A j \in 1..Len(series) : series[j] # c_DATE

(***************************************************************************)
(* Properties of the pipeline                                              *)
(***************************************************************************)
StageOrder == <<"DataFetcher", "SpecAdvisor", "ChartRenderer", "InsightNarrator">>

IsPrefix(p, q) == Len(p) <= Len(q) /\ SubSeq(q, 1, Len(p)) = p

Returned(i) == pc[i] \in {"returned", "exited"}

Invoked(i, stage) == \E k \in 1..Len(calls[i]) : calls[i][k] = stage

LLMUsedBy(i, stage) == \E k \in 1..Len(llms[i]) : llms[i][k].stage = stage

\* the query of invocation i returned a result (read_sql did not raise)
QueryReturned(i) ==
    /\ Invoked(i, "DataFetcher")
    /\ \A k \in 1..Len(faults[i]) : faults[i][k].what # "read_sql"

\* what the query result is like, read off the warehouse table itself
ResultEmpty == warehouse.nrows = 0 \/ Len(warehouse.cols) = 0
DatePositions == {c \in 1..Len(warehouse.cols) : IsDateName(warehouse.cols[c])}
DateRemoved == ~ResultEmpty /\ DatePositions = {}
DateCells == {warehouse.data[c][r] : c \in DatePositions, r \in 1..warehouse.nrows}
ParseableCells == {"2024-01-01", "2024-01-02", "2024-01-03"}
DateAllUnparseable ==
    ~ResultEmpty /\ DatePositions # {} /\ DateCells \cap ParseableCells = {}
DateSomeUnparseable ==
    ~ResultEmpty /\ DatePositions # {} /\ DateCells \ ParseableCells # {}

\* C1: the stages run in the order DataFetcher, SpecAdvisor, ChartRenderer,
\* InsightNarrator; when the fetch or its validation fails (query error,
\* empty result, DATE missing, DATE unparseable) or the renderer returns no
\* path, the record is failed with an error and no later stage runs, the
\* narrator's LLM call included; without a DATE column the error mentions
\* DATE; a success record comes only after all four stages and carries a
\* chart path and an analysis.
C1_StagesInOrderAndShortCircuit ==
    \A i \in Invocations :
        /\ IsPrefix(calls[i], StageOrder)
        /\ Returned(i) =>
             /\ result[i].status \in {"success", "failed"}
             /\ ~QueryReturned(i) \/ ResultEmpty \/ DateRemoved \/ DateAllUnparseable
                  => /\ calls[i] = <<"DataFetcher">>
                     /\ result[i].status = "failed"
                     /\ "error" \in DOMAIN result[i]
                     /\ llms[i] = <<>>
             /\ QueryReturned(i) /\ DateRemoved
                  => StrContains(result[i].error, c_DATE)
             /\ Invoked(i, "ChartRenderer") /\ chart[i].path = None
                  => /\ result[i].status = "failed"
                     /\ "error" \in DOMAIN result[i]
                     /\ ~Invoked(i, "InsightNarrator")
                     /\ ~LLMUsedBy(i, "InsightNarrator")
             /\ result[i].status = "failed" /\ ~Invoked(i, "InsightNarrator")
                  => ~LLMUsedBy(i, "InsightNarrator")
             /\ result[i].status = "success"
                  => /\ calls[i] = StageOrder
                     /\ "chart_path" \in DOMAIN result[i]
                     /\ result[i].chart_path # None
                     /\ "analysis" \in DOMAIN result[i]

\* the query returned rows without a DATE column and the run has ended,
\* failed, after the fetch stage alone
C1_Witness ==
    /\ Returned(1)
    /\ QueryReturned(1)
    /\ DateRemoved
    /\ result[1].status = "failed"
    /\ calls[1] = <<"DataFetcher">>

\* the DATE column of the table of invocation i has no null
DateAllParsed(i) ==
    \A r \in 1..df[i].nrows : Column(df[i], c_DATE)[r] # NaT

\* C4 as stated: an empty result, a missing DATE column and an unparseable
\* DATE column each fail the fetch step with an error naming the cause,
\* before any LLM or renderer call; a table that passes the step has a DATE
\* column that is non-null and parsed.
C4_FetchRejectsBadDates ==
    \A i \in Invocations :
        QueryReturned(i) =>
            /\ ResultEmpty => inner[i] = Failed(E_NO_DATA)
            /\ DateRemoved => inner[i] = Failed(E_DATE_MISSING)
            /\ DateAllUnparseable => inner[i] = Failed(E_DATE_UNPARSEABLE)
            /\ ResultEmpty \/ DateRemoved \/ DateAllUnparseable
                 => /\ llms[i] = <<>>
                    /\ ~Invoked(i, "SpecAdvisor")
                    /\ ~Invoked(i, "ChartRenderer")
            /\ pc[i] = "SpecAdvisor" => HasColumn(df[i], c_DATE) /\ DateAllParsed(i)

FaultsOf(i, stage) ==
    {k \in 1..Len(faults[i]) : faults[i][k].stage = stage}

WellFormed(r) ==
    /\ r.status \in {"success", "failed"}
    /\ r.status = "failed" => "error" \in DOMAIN r

\* C7: no failure of a collaborator leaves a stage as an exception.  A
\* failed query gives a failed record with the message, in the inner and
\* the outer function; a failed LLM construction or call in the advisor
\* gives the empty mapping, and the run goes on with the default specs; a
\* failed plot gives no path; a failed LLM construction or call in the
\* narrator gives a failed record; get_valuation_summary gives a failed
\* record; every record returned is success or failed, and a failed one has
\* an error.
C7_NoExceptionEscapes ==
    /\ \A i \in Invocations :
         /\ inner[i] # NoResult => WellFormed(inner[i])
         /\ result[i] # NoResult => WellFormed(result[i])
         /\ Returned(i) => result[i] # NoResult
         /\ \A k \in FaultsOf(i, "DataFetcher") :
              /\ inner[i] = Failed(faults[i][k].msg)
              /\ result[i] = Failed(faults[i][k].msg)
         /\ FaultsOf(i, "SpecAdvisor") # {} =>
              /\ llm_specs[i] = EmptyDict
              /\ graph_specs[i] = default_graph_specs
              /\ Returned(i) => Invoked(i, "ChartRenderer")
         /\ FaultsOf(i, "ChartRenderer") # {} =>
              /\ chart[i].path = None
              /\ inner[i] = Failed(E_NO_GRAPH)
              /\ result[i] = Failed(E_NO_GRAPH)
         /\ \A k \in FaultsOf(i, "InsightNarrator") :
              result[i] = Failed(AnalysisUnavailable \o faults[i][k].msg)
    /\ summary.returned =>
         /\ WellFormed(summary.result)
         /\ summary.outcome.kind = "read_sql_raises"
              => summary.result = Failed(summary.outcome.msg)
         /\ summary.outcome.kind = "plot_raises" => summary.result.status = "failed"

\* the LLM call of the advisor raised and the run still ended in success
C7_Witness ==
    /\ Returned(1)
    /\ \E k \in FaultsOf(1, "SpecAdvisor") : faults[1][k].what = "invoke_raises"
    /\ llm_specs[1] = EmptyDict
    /\ result[1].status = "success"

MainLines(i) == {k \in 1..Len(stdout[i]) : stdout[i][k].by = "__main__"}

\* C8 as stated: when the script has run, the entry point has printed the
\* error message if the analysis failed and the narrative if it succeeded,
\* and the process has ended normally.
C8_MainPrintsAndEndsNormally ==
    \A i \in Invocations :
        pc[i] = "exited" =>
            /\ exit[i] = "normal"
            /\ result[i].status = "failed" =>
                 \E k \in MainLines(i) : stdout[i][k].text = result[i].error
            /\ result[i].status = "success" =>
                 \E k \in MainLines(i) : stdout[i][k].text = result[i].analysis

\* C9: every successful invocation returns the one fixed path, and the
\* file at that path holds the figure of whichever invocation closed it
\* last, so that it need not be the figure of the invocation that returns
\* the path.
C9_OneFileForAllInvocations ==
    /\ \A i \in Invocations :
         result[i].status = "success" => result[i].chart_path = chart_file_path
    /\ file.content = "figure" =>
         /\ file.last \in Invocations
         /\ file.figure = chart[file.last].figure

\* invocation 1 has returned success with the path, and the file holds the
\* complete figure of invocation 2, which is not the figure invocation 1 drew
C9_Witness ==
    /\ result[1].status = "success"
    /\ result[1].chart_path = chart_file_path
    /\ file.content = "figure"
    /\ file.last = 2
    /\ file.figure = chart[2].figure
    /\ file.figure.kind # chart[1].figure.kind

====
